---- MODULE Spec2Model ----
(***************************************************************************)
(* A model of src/lib/Proxy.ts: the test proxy that serves (optionally     *)
(* instrumented) files over HTTP and relays the events a remote client     *)
(* posts, or sends over a WebSocket, to the listeners subscribed to the    *)
(* event's session.                                                        *)
(*                                                                         *)
(* Node runs every callback to completion, so each action below is one     *)
(* callback (a request handler, a continuation of fs.stat/fs.readFile, a   *)
(* promise reaction) or one call of the public API.                        *)
(***************************************************************************)
EXTENDS Integers, Sequences, FiniteSets, TLC

\* ------------------------------------------------------------------------
\* Bounds of the model
\* ------------------------------------------------------------------------
MaxSeq == 2        \* events carry sequence numbers 0..MaxSeq
MaxSubs == 2       \* subscribe() calls
MaxPosts == 1      \* POST requests
MaxBatch == 2      \* events in one POST body
MaxFrames == 2     \* inbound WebSocket frames
MaxReqs == 2       \* GET/HEAD/other requests
MaxStarts == 2     \* start() calls
MaxStops == 1      \* stop() calls whose promise is still pending
MaxMtime == 2      \* modification times fs.stat reports: 1..MaxMtime
MaxContent == 2    \* file contents fs.readFile reports: 0..MaxContent
MaxSockets == 3    \* connections the server accepts

SessionIds == {"S1", "S2"}

\* Three listener functions, one of each behaviour a ProxyListener can show
\* when _publish calls it: "Lv" returns a plain value, "Lp" returns a
\* promise that settles later (either way), "Lt" throws.
Listeners == {"Lv", "Lp", "Lt"}

VARIABLES
    sessions,   \* this._sessions: session id -> { listeners }
    handles,    \* the handles subscribe() has returned, in order
    handled,    \* the _handleMessage calls made so far, in order
    calls,      \* the listener invocations made so far, in order
    posts,      \* the POST requests received
    frames,     \* the WebSocket frames received
    errors,     \* what was emitted on the executor's 'error' event
    server,     \* this.server is set (TRUE) or null/undefined (FALSE)
    listening,  \* the http.Server of this.server accepts requests
    wsServer,   \* this._wsServer is set
    socketPort, \* the option socketPort is set
    instrument, \* the option instrument
    excludeInstrumentation,  \* the option excludeInstrumentation
    codeCache,  \* this._codeCache: null/undefined, or path -> { mtime, data }
    stops,      \* the stop() calls whose promise has not settled yet
    starts,     \* the number of start() calls made
    reqs,       \* the GET/HEAD/other requests received, with their responses
    instrumentCalls,  \* path -> number of calls of instrument() for it
    sockets,    \* the array sockets of start()
    conns       \* every connection accepted: what became of it

msgVars == <<sessions, handles, handled, calls, posts, frames, errors>>

fileVars == <<server, listening, wsServer, socketPort, instrument,
              excludeInstrumentation, codeCache,
              stops, starts, reqs, instrumentCalls>>

sockVars == <<sockets, conns>>

vars == <<msgVars, fileVars, sockVars>>

\* ------------------------------------------------------------------------
\* Messages and their wire encodings
\* ------------------------------------------------------------------------

\* A Message (lib/Channel): the session it belongs to, the sequence number
\* and the id its sender gave it. "wait" is what getShouldWait(runInSync,
\* message) of lib/util evaluates to for it.
Msgs == [sessionId : SessionIds, sequence : 0..MaxSeq, id : 0..MaxFrames, wait : BOOLEAN]

PostMsgs == {m \in Msgs : m.id = 0}

NoMsg == [sessionId |-> "S1", sequence |-> 0, id |-> 0, wait |-> FALSE]

\* One element of a parsed POST body: an event object ("obj"), a string
\* holding the JSON text of an event ("strjson"), a string that is not
\* JSON ("strbad").
Items == [k : {"obj", "strjson"}, ev : PostMsgs] \cup {[k |-> "strbad", ev |-> NoMsg]}

\* A POST body: text that is not JSON ("bad"), the JSON text of an array
\* of items ("arr"), the JSON text of a single item ("single").
Bodies ==
    {[k |-> "bad", items |-> <<>>]}
    \cup {[k |-> "single", items |-> <<i>>] : i \in Items}
    \cup UNION {[k : {"arr"}, items : [1..n -> Items]] : n \in 0..MaxBatch}

\* JSON.parse of the body text: it throws on text that is not JSON.
ParseBody(body) ==
    IF body.k = "bad" THEN [ok |-> FALSE, isArray |-> FALSE, items |-> <<>>]
    ELSE [ok |-> TRUE, isArray |-> body.k = "arr", items |-> body.items]

\* JSON.parse(messageString) of one element. JSON.parse converts its
\* argument to a string first: an object becomes "[object Object]", which
\* is not JSON, so it throws as it does for a string that is not JSON.
ParseItem(item) ==
    IF item.k = "strjson" THEN [ok |-> TRUE, ev |-> item.ev]
    ELSE [ok |-> FALSE, ev |-> NoMsg]

\* ------------------------------------------------------------------------
\* Sessions and subscriptions
\* ------------------------------------------------------------------------

_getSession(ss, sessionId) ==
    IF ss[sessionId].created THEN ss
    ELSE [ss EXCEPT ![sessionId] = [created |-> TRUE, listeners |-> <<>>]]

RECURSIVE RemoveFirst(_, _)
RemoveFirst(haystack, needle) ==
    IF haystack = <<>> THEN <<>>
    ELSE IF Head(haystack) = needle THEN Tail(haystack)
    ELSE <<Head(haystack)>> \o RemoveFirst(Tail(haystack), needle)

\* pullFromArray of lib/util: takes the listener reference out of the array.
pullFromArray(haystack, needle) == RemoveFirst(haystack, needle)

subscribe(sessionId, listener) ==
    /\ Len(handles) < MaxSubs
    /\ LET ss == _getSession(sessions, sessionId) IN
          sessions' = [ss EXCEPT ![sessionId].listeners = Append(@, listener)]
    /\ handles' = Append(handles, [sessionId |-> sessionId, listener |-> listener, live |-> TRUE])
    /\ UNCHANGED <<handled, calls, posts, frames, errors>>
    /\ UNCHANGED <<fileVars, sockVars>>

\* Mutant of DestroyIsLive: destroy() does not replace itself.
DestroyAlwaysLive(h) == TRUE

\* Whether destroy() of handle h still is the function subscribe() gave it
\* (the first call replaces it by an empty function).
DestroyIsLive(h) == handles[h].live

destroy(h) ==
    /\ h \in 1..Len(handles)
    /\ IF DestroyIsLive(h)
       THEN /\ handles' = [handles EXCEPT ![h].live = FALSE]
            /\ sessions' = [sessions EXCEPT ![handles[h].sessionId].listeners =
                                pullFromArray(@, handles[h].listener)]
       ELSE UNCHANGED <<handles, sessions>>
    /\ UNCHANGED <<handled, calls, posts, frames, errors>>
    /\ UNCHANGED <<fileVars, sockVars>>

\* ------------------------------------------------------------------------
\* Delivery of a message to the listeners of its session
\* ------------------------------------------------------------------------

\* What the call listener(message.name, message.data) gives Promise.all.
Outcome(listener) ==
    CASE listener = "Lv" -> "resolved"
      [] listener = "Lp" -> "pending"
      [] listener = "Lt" -> "threw"

\* The index of the first listener of ls that throws, or 0.
FirstThrow(ls) ==
    IF \E i \in 1..Len(ls) : Outcome(ls[i]) = "threw"
    THEN CHOOSE i \in 1..Len(ls) :
            /\ Outcome(ls[i]) = "threw"
            /\ \A j \in 1..(i - 1) : Outcome(ls[j]) # "threw"
    ELSE 0

\* _publish(message), as the mid-th message handled: listeners.map(...)
\* calls the session's listeners in the order of the array; a listener
\* that throws ends the map, and _publish, with that exception.
\* st holds the sessions, the handled messages and the calls so far.
_publish(st, message, mid) ==
    LET ss == _getSession(st.sessions, message.sessionId)
        ls == ss[message.sessionId].listeners
        ft == FirstThrow(ls)
        n == IF ft = 0 THEN Len(ls) ELSE ft
        made == [i \in 1..n |-> [mid |-> mid, listener |-> ls[i], st |-> Outcome(ls[i])]]
    IN [sessions |-> ss,
        handled |-> st.handled,
        calls |-> st.calls \o made,
        threw |-> ft # 0]

\* _handleMessage(message) as called by src (a POST request or a frame):
\* it publishes whatever the wait policy is; the policy only selects the
\* promise that is returned.
_handleMessage(st, message, src) ==
    LET mid == Len(st.handled) + 1
        st1 == [st EXCEPT !.handled = Append(@, [msg |-> message, src |-> src])]
    IN _publish(st1, message, mid)

\* The calls made for the mid-th message handled.
CallsOf(mid) == {c \in 1..Len(calls) : calls[c].mid = mid}

\* The state of the promise Promise.all(listeners.map(...)) that _publish
\* returned for the mid-th message: it rejects as soon as one of the
\* promises rejects and fulfils when all have fulfilled.
PublishState(mid) ==
    IF \E c \in CallsOf(mid) : calls[c].st = "rejected" THEN "rejected"
    ELSE IF \A c \in CallsOf(mid) : calls[c].st = "resolved" THEN "fulfilled"
    ELSE "pending"

\* The state of the promise _handleMessage returned for the mid-th message:
\* shouldWait ? promise : Promise.resolve().
HandleState(mid) ==
    IF handled[mid].msg.wait THEN PublishState(mid) ELSE "fulfilled"

\* A promise a listener returned settles.
Settle(c) ==
    /\ c \in 1..Len(calls)
    /\ calls[c].st = "pending"
    /\ \E outcome \in {"resolved", "rejected"} :
          calls' = [calls EXCEPT ![c].st = outcome]
    /\ UNCHANGED <<sessions, handles, handled, posts, frames, errors>>
    /\ UNCHANGED <<fileVars, sockVars>>

\* ------------------------------------------------------------------------
\* POST requests
\* ------------------------------------------------------------------------

\* Mutant of HandleAll: the messages are handled from the last to the first.
RECURSIVE HandleAllBackwards(_, _, _)
HandleAllBackwards(st, messages, src) ==
    IF messages = <<>> \/ st.threw THEN st
    ELSE HandleAllBackwards(_handleMessage(st, messages[Len(messages)], src),
                            SubSeq(messages, 1, Len(messages) - 1), src)

\* messages.map(message => this._handleMessage(message)): the messages are
\* handled in the order of the array; an exception ends the map.
RECURSIVE HandleAll(_, _, _)
HandleAll(st, messages, src) ==
    IF messages = <<>> \/ st.threw THEN st
    ELSE HandleAll(_handleMessage(st, Head(messages), src), Tail(messages), src)

\* The status the 'end' handler's catch block answers with.
CatchStatus == 500

\* _handler for a POST request with this body, up to the end of the 'end'
\* handler of the request.
PostEnd(body) ==
    /\ Len(posts) < MaxPosts
    /\ LET p == Len(posts) + 1
           raw == ParseBody(body)
           rawMessages == raw.items
           parsed == [i \in 1..Len(rawMessages) |-> ParseItem(rawMessages[i])]
           parseOk == raw.ok /\ \A i \in 1..Len(parsed) : parsed[i].ok
           messages == [i \in 1..Len(parsed) |-> parsed[i].ev]
           st0 == [sessions |-> sessions, handled |-> handled, calls |-> calls, threw |-> FALSE]
           st1 == IF parseOk THEN HandleAll(st0, messages, [k |-> "post", n |-> p]) ELSE st0
           caught == ~parseOk \/ st1.threw
       IN /\ sessions' = st1.sessions
          /\ handled' = st1.handled
          /\ calls' = st1.calls
          /\ posts' = Append(posts,
                [body |-> body,
                 pc |-> IF caught THEN "done" ELSE "wait",
                 status |-> IF caught THEN CatchStatus ELSE 0,
                 ends |-> IF caught THEN 1 ELSE 0,
                 first |-> Len(handled) + 1,
                 last |-> Len(st1.handled)])
    /\ UNCHANGED <<handles, frames, errors>>
    /\ UNCHANGED <<fileVars, sockVars>>

\* The messages handled for POST request p.
MidsOfPost(p) == posts[p].first..posts[p].last

\* The state of Promise.all(messages.map(...)) of POST request p.
PostAllState(p) ==
    IF \E mid \in MidsOfPost(p) : HandleState(mid) = "rejected" THEN "rejected"
    ELSE IF \A mid \in MidsOfPost(p) : HandleState(mid) = "fulfilled" THEN "fulfilled"
    ELSE "pending"

\* Mutant of SettledStatus: the rejection reaction answers 204 too.
SettledStatusAlways204(state) == 204

\* The status the reactions of that promise answer with.
SettledStatus(state) == IF state = "fulfilled" THEN 204 ELSE 500

\* One of the two reactions registered on Promise.all(...) runs.
PostRespond(p) ==
    /\ p \in 1..Len(posts)
    /\ posts[p].pc = "wait"
    /\ PostAllState(p) # "pending"
    /\ posts' = [posts EXCEPT ![p].pc = "done",
                              ![p].status = SettledStatus(PostAllState(p)),
                              ![p].ends = @ + 1]
    /\ UNCHANGED <<sessions, handles, handled, calls, frames, errors>>
    /\ UNCHANGED <<fileVars, sockVars>>

\* ------------------------------------------------------------------------
\* WebSocket frames
\* ------------------------------------------------------------------------

\* The data of a frame: text that is not JSON, or the JSON text of an event.
FrameData == {[k |-> "strbad", ev |-> NoMsg]} \cup [k : {"strjson"}, ev : Msgs]

\* The 'message' handler of a client, up to its end. JSON.parse and
\* _handleMessage are not guarded: an exception of either leaves the
\* handler, and neither .catch nor .then is reached.
WsMessage(data) ==
    /\ Len(frames) < MaxFrames
    /\ data.ev.id = IF data.k = "strjson" THEN Len(frames) + 1 ELSE 0
    /\ LET f == Len(frames) + 1
           parsed == ParseItem(data)
           st0 == [sessions |-> sessions, handled |-> handled, calls |-> calls, threw |-> FALSE]
           st1 == IF parsed.ok THEN _handleMessage(st0, parsed.ev, [k |-> "ws", n |-> f]) ELSE st0
           thrown == ~parsed.ok \/ st1.threw
       IN /\ sessions' = st1.sessions
          /\ handled' = st1.handled
          /\ calls' = st1.calls
          /\ frames' = Append(frames,
                [data |-> data,
                 pc |-> IF thrown THEN "thrown" ELSE "wait",
                 mid |-> IF parsed.ok THEN Len(handled) + 1 ELSE 0,
                 acks |-> <<>>])
    /\ UNCHANGED <<handles, posts, errors>>
    /\ UNCHANGED <<fileVars, sockVars>>

\* The id the acknowledgement of frame f carries.
AckId(f) == frames[f].data.ev.id

\* The reactions .catch(...) and .then(...) of a frame run once the promise
\* of _handleMessage has settled; client.send may fail, which is emitted too.
WsAck(f) ==
    /\ f \in 1..Len(frames)
    /\ frames[f].pc = "wait"
    /\ HandleState(frames[f].mid) # "pending"
    /\ \E sendError \in BOOLEAN :
          /\ frames' = [frames EXCEPT ![f].pc = "acked",
                                      ![f].acks = Append(@, AckId(f))]
          /\ errors' = errors
                \o (IF HandleState(frames[f].mid) = "rejected"
                    THEN <<[frame |-> f, from |-> "handleMessage"]>> ELSE <<>>)
                \o (IF sendError THEN <<[frame |-> f, from |-> "send"]>> ELSE <<>>)
    /\ UNCHANGED <<sessions, handles, handled, calls, posts>>
    /\ UNCHANGED <<fileVars, sockVars>>

\* Before any subscription or message.
InitMsg ==
    /\ sessions = [s \in SessionIds |-> [created |-> FALSE, listeners |-> <<>>]]
    /\ handles = <<>>
    /\ handled = <<>>
    /\ calls = <<>>
    /\ posts = <<>>
    /\ frames = <<>>
    /\ errors = <<>>

\* ------------------------------------------------------------------------
\* start() and stop()
\* ------------------------------------------------------------------------

\* The paths requests resolve to: two files under basePath and one under
\* the installation directory.
Paths == {"a.js", "a.html", "intern/a.js"}

NoBody == [k |-> "none", c |-> 0]

NoEntry == [has |-> FALSE, mtime |-> 0, data |-> NoBody]

\* this._codeCache = {}
EmptyCache == [isNull |-> FALSE, entries |-> [path \in Paths |-> NoEntry]]

\* this._codeCache = null (or never assigned)
NullCache == [isNull |-> TRUE, entries |-> [path \in Paths |-> NoEntry]]

NoSessions == [s \in SessionIds |-> [created |-> FALSE, listeners |-> <<>>]]

\* The 'close' advice of start(): every socket of the array is popped and
\* destroyed. The array is the one of the server's own start() call.
RECURSIVE DestroyAll(_, _)
DestroyAll(socks, cs) ==
    IF socks = <<>> THEN cs
    ELSE DestroyAll(SubSeq(socks, 1, Len(socks) - 1),
                    [cs EXCEPT ![socks[Len(socks)]].st = "destroyed"])

\* start(): a new server, which listens on the port (so no earlier server
\* of this proxy listens on it any longer), fresh sessions and a fresh cache.
start ==
    /\ starts < MaxStarts
    /\ ~listening
    /\ starts' = starts + 1
    /\ server' = TRUE
    /\ listening' = TRUE
    /\ sessions' = NoSessions
    /\ codeCache' = EmptyCache
    /\ sockets' = <<>>
    /\ wsServer' = IF socketPort THEN TRUE ELSE wsServer
    /\ UNCHANGED <<socketPort, instrument, excludeInstrumentation, stops, reqs, instrumentCalls, conns>>
    /\ UNCHANGED <<handles, handled, calls, posts, frames, errors>>

\* stop(), up to its return: close() of the server that this.server holds
\* and of the WebSocket server, each with a promise that settles when the
\* server has closed. close() ends the listening at once, and the advice of
\* start() then destroys the sockets. Every request still in flight is
\* marked as one that saw stop().
stop ==
    /\ Len(stops) < MaxStops
    /\ stops' = Append(stops, [srv |-> IF server THEN "closing" ELSE "none",
                               ws |-> IF wsServer THEN "closing" ELSE "none"])
    /\ listening' = IF server THEN FALSE ELSE listening
    /\ sockets' = IF server THEN <<>> ELSE sockets
    /\ conns' = IF server THEN DestroyAll(sockets, conns) ELSE conns
    /\ reqs' = [r \in 1..Len(reqs) |->
                  IF reqs[r].pc \in {"stat", "read", "pipe"}
                  THEN [reqs[r] EXCEPT !.stopped = TRUE] ELSE reqs[r]]
    /\ UNCHANGED <<server, wsServer, socketPort, instrument, excludeInstrumentation, codeCache, starts, instrumentCalls>>
    /\ UNCHANGED msgVars

\* The server of the i-th pending stop() has closed: this.server = null.
ServerClosed(i) ==
    /\ i \in 1..Len(stops)
    /\ stops[i].srv = "closing"
    /\ stops' = [stops EXCEPT ![i].srv = "closed"]
    /\ server' = FALSE
    /\ UNCHANGED <<listening, wsServer, socketPort, instrument, excludeInstrumentation, codeCache, starts, reqs, instrumentCalls>>
    /\ UNCHANGED <<msgVars, sockVars>>

\* Its WebSocket server has closed: this._wsServer = null.
WsServerClosed(i) ==
    /\ i \in 1..Len(stops)
    /\ stops[i].ws = "closing"
    /\ stops' = [stops EXCEPT ![i].ws = "closed"]
    /\ wsServer' = FALSE
    /\ UNCHANGED <<server, listening, socketPort, instrument, excludeInstrumentation, codeCache, starts, reqs, instrumentCalls>>
    /\ UNCHANGED <<msgVars, sockVars>>

\* Promise.all(promises) of the i-th pending stop() has fulfilled:
\* this._codeCache = null.
StopDone(i) ==
    /\ i \in 1..Len(stops)
    /\ stops[i].srv # "closing"
    /\ stops[i].ws # "closing"
    /\ stops' = SubSeq(stops, 1, i - 1) \o SubSeq(stops, i + 1, Len(stops))
    /\ codeCache' = NullCache
    /\ UNCHANGED <<server, listening, wsServer, socketPort, instrument, excludeInstrumentation, starts, reqs, instrumentCalls>>
    /\ UNCHANGED <<msgVars, sockVars>>

Lifecycle ==
    \/ start
    \/ stop
    \/ \E i \in 1..MaxStops : ServerClosed(i)
    \/ \E i \in 1..MaxStops : WsServerClosed(i)
    \/ \E i \in 1..MaxStops : StopDone(i)

\* ------------------------------------------------------------------------
\* GET and HEAD requests (and the methods the proxy does not implement)
\* ------------------------------------------------------------------------

Methods == {"GET", "HEAD", "PUT"}

Urls == {"/a.js"}

\* The request URLs of the eligibility model: a script, the same script
\* with a query string, a page, and a script under the reserved prefix.
AllUrls == {"/a.js", "/a.js?v", "/a.html", "/__intern/a.js"}

\* /\.js(?:$|\?)/.test(request.url)
IsJsUrl(url) == url \in {"/a.js", "/a.js?v", "/__intern/a.js"}

\* /^\/+([^?]*)/.exec(request.url)[1]
UrlFile(url) ==
    CASE url = "/a.js" -> "a.js"
      [] url = "/a.js?v" -> "a.js"
      [] url = "/a.html" -> "a.html"
      [] url = "/__intern/a.js" -> "__intern/a.js"

\* /^__intern\//.test(file)
IsInternFile(file) == file = "__intern/a.js"

\* The path the file resolves to (resolve, join, normalizePath): under the
\* installation directory for a file of the reserved prefix, else under
\* basePath.
WholePath(file) ==
    CASE file = "a.js" -> "a.js"
      [] file = "a.html" -> "a.html"
      [] file = "__intern/a.js" -> "intern/a.js"

\* The values of the option excludeInstrumentation: false, true, and two
\* regular expressions.
Excludes == {"false", "true", "/^a/", "/^lib/"}

\* regexp.test(file)
RegExpTest(regexp, file) == regexp = "/^a/" /\ file \in {"a.js", "a.html"}

\* this.excludeInstrumentation === true ||
\* (this.excludeInstrumentation && this.excludeInstrumentation.test(file))
Excluded(file) ==
    \/ excludeInstrumentation = "true"
    \/ excludeInstrumentation # "false" /\ RegExpTest(excludeInstrumentation, file)

\* Mutant of ShouldInstrument: the reserved prefix is not looked at.
ShouldInstrumentIntern(method, url) ==
    /\ method = "GET"
    /\ IsJsUrl(url)
    /\ instrument
    /\ ~Excluded(UrlFile(url))

\* shouldInstrument as _handler passes it and _handleFile adjusts it before
\* it calls fs.stat.
ShouldInstrument(method, url) ==
    /\ method = "GET"
    /\ IsJsUrl(url)
    /\ instrument
    /\ ~IsInternFile(UrlFile(url))
    /\ ~Excluded(UrlFile(url))

\* instrument(data, wholePath, options): it throws on source it cannot
\* parse (content 0).
InstrumentThrows(content) == content = 0

Instrumented(content) == [k |-> "instr", c |-> content]

\* The body of _send404: a fixed document and a padding comment.
NotFoundBody == [k |-> "404", c |-> 0]

\* The length of '<!DOCTYPE html><title>404 Not Found</title><h1>404 Not
\* Found</h1>' and of the '<!-- ' and ' -->' around the padding.
NotFoundHtmlLength == 74

\* new Array(512)
PaddingArrayLength == 512

\* array.join('.') of an array of n empty slots: n - 1 separators.
JoinLength(n) == IF n = 0 THEN 0 ELSE n - 1

\* The number of bytes of a response body (every character of the 404
\* document is one byte; a file's content counts as its number).
BodyLength(body) ==
    IF body.k = "404" THEN NotFoundHtmlLength + JoinLength(PaddingArrayLength)
    ELSE body.c

\* Mutant of _send404: the response is ended without the document.
_send404Empty(rq) ==
    [rq EXCEPT !.pc = "done", !.heads = Append(@, 404), !.ends = @ + 1,
               !.body = [k |-> "none", c |-> 0], !.via = "404"]

\* _send404(response)
_send404(rq) ==
    [rq EXCEPT !.pc = "done", !.heads = Append(@, 404), !.ends = @ + 1,
               !.body = NotFoundBody, !.via = "404"]

\* Mutant of Unsupported: the method is not looked at and the request is
\* served as a file.
UnsupportedAsFile(rq) == rq

\* The last branch of _handler: statusCode = 501, end().
Unsupported(rq) ==
    [rq EXCEPT !.pc = "done", !.heads = <<501>>, !.ends = 1, !.via = "501"]

\* Mutant of send: the head is written and the response ended a second time.
sendTwice(rq, data, via) ==
    [rq EXCEPT !.pc = "done", !.heads = @ \o <<200, 200>>, !.ends = @ + 2,
               !.body = data, !.via = via]

\* send(contentType, data) of _handleFile
send(rq, data, via) ==
    [rq EXCEPT !.pc = "done", !.heads = Append(@, 200), !.ends = @ + 1,
               !.body = data, !.via = via]

\* _handler(request, response), and with it _handleFile up to its call of
\* fs.stat.
Request(method, url) ==
    /\ listening
    /\ Len(reqs) < MaxReqs
    /\ LET rq == [method |-> method, url |-> url, path |-> WholePath(UrlFile(url)),
                  instr |-> ShouldInstrument(method, url),
                  omit |-> method = "HEAD",
                  pc |-> "stat", mtime |-> 0, heads |-> <<>>, ends |-> 0,
                  body |-> NoBody, via |-> "", stopped |-> FALSE,
                  old |-> 0, called |-> FALSE, err |-> ""]
       IN reqs' = Append(reqs,
             IF method \in {"GET", "HEAD"} THEN rq ELSE Unsupported(rq))
    /\ UNCHANGED <<server, listening, wsServer, socketPort, instrument, excludeInstrumentation, codeCache,
                   stops, starts, instrumentCalls>>
    /\ UNCHANGED <<msgVars, sockVars>>

\* The check both continuations start with: if (!this.server) return.
ServerGone == ~server

\* Mutant of CacheHit: the comparison of the mtimes is inverted.
CacheHitInverted(path, mtime) ==
    /\ codeCache.entries[path].has
    /\ codeCache.entries[path].mtime # mtime

\* Mutant of CacheHit: the mtimes are not compared.
CacheHitAnyMtime(path, mtime) == codeCache.entries[path].has

\* Whether the cache holds the path with this mtime.
CacheHit(path, mtime) ==
    /\ codeCache.entries[path].has
    /\ codeCache.entries[path].mtime = mtime

\* What fs.stat reports: the mtime of the file, or an error (0 for a
\* file that does not exist, -1 for any other failure).
StatResults == -1..MaxMtime

\* The error fs.stat passes to its callback, "" for none.
StatError(stat) ==
    CASE stat = 0 -> "ENOENT"
      [] stat = -1 -> "EACCES"
      [] OTHER -> ""

\* The callback of fs.stat runs for request r with what fs.stat found.
\* The request keeps the mtime (the variable mtime of the callback) and,
\* for the record, the error the callback looked at (err) and the mtime of
\* the cache entry it found (old; 0 for none).
StatDone(r, stat) ==
    /\ r \in 1..Len(reqs)
    /\ reqs[r].pc = "stat"
    /\ LET rq == IF ServerGone THEN reqs[r]
                 ELSE IF StatError(stat) # "" THEN [reqs[r] EXCEPT !.err = StatError(stat)]
                 ELSE IF ~reqs[r].instr \/ codeCache.isNull THEN reqs[r]
                 ELSE [reqs[r] EXCEPT !.mtime = stat,
                                      !.old = codeCache.entries[reqs[r].path].mtime]
       IN
       reqs' = [reqs EXCEPT ![r] =
          IF ServerGone THEN [rq EXCEPT !.pc = "abandoned"]
          ELSE IF StatError(stat) # "" THEN _send404(rq)
          ELSE IF rq.instr THEN
             IF codeCache.isNull THEN [rq EXCEPT !.pc = "thrown"]
             ELSE IF CacheHit(rq.path, stat)
                  THEN send(rq, codeCache.entries[rq.path].data, "cache")
                  ELSE [rq EXCEPT !.pc = "read"]
          ELSE IF rq.omit
               THEN [rq EXCEPT !.pc = "done", !.heads = Append(@, 200), !.ends = @ + 1,
                               !.via = "head"]
               ELSE [rq EXCEPT !.pc = "pipe", !.heads = Append(@, 200), !.via = "pipe"]]
    /\ UNCHANGED <<server, listening, wsServer, socketPort, instrument, excludeInstrumentation, codeCache,
                   stops, starts, instrumentCalls>>
    /\ UNCHANGED <<msgVars, sockVars>>

\* Mutant of StoresEntry: the entry is written whether or not instrument()
\* returned.
StoresEntryAlways(read) == TRUE

\* Whether the callback of fs.readFile gets as far as the assignment to
\* this._codeCache[wholePath]: instrument() has to return.
StoresEntry(read) == ~InstrumentThrows(read)

\* The mtime stored with a new cache entry.
EntryMtime(rq) == rq.mtime

\* The callback of fs.readFile runs for request r. read is what
\* fs.readFile found: -1 for an error, else the content of the file.
\* called records that the request has called instrument().
ReadDone(r, read) ==
    /\ r \in 1..Len(reqs)
    /\ reqs[r].pc = "read"
    /\ LET rq == reqs[r]
           called == ~ServerGone /\ read # -1
           stored == called /\ StoresEntry(read) /\ ~codeCache.isNull
       IN /\ reqs' = [reqs EXCEPT ![r] =
                IF ServerGone THEN [rq EXCEPT !.pc = "abandoned"]
                ELSE IF read = -1 THEN _send404(rq)
                ELSE IF ~stored THEN [rq EXCEPT !.pc = "thrown", !.called = TRUE]
                ELSE send([rq EXCEPT !.called = TRUE], Instrumented(read), "transform")]
          /\ instrumentCalls' = IF called
                THEN [instrumentCalls EXCEPT ![rq.path] = @ + 1] ELSE instrumentCalls
          /\ codeCache' = IF stored
                THEN [codeCache EXCEPT !.entries[rq.path] =
                         [has |-> TRUE, mtime |-> EntryMtime(rq), data |-> Instrumented(read)]]
                ELSE codeCache
    /\ UNCHANGED <<server, listening, wsServer, socketPort, instrument, excludeInstrumentation, stops, starts>>
    /\ UNCHANGED <<msgVars, sockVars>>

\* fs.createReadStream(wholePath).pipe(response) has read the file and
\* ended the response; read is as for ReadDone. An error of the stream
\* has no handler and the response is left open.
PipeEnd(r, read) ==
    /\ r \in 1..Len(reqs)
    /\ reqs[r].pc = "pipe"
    /\ reqs' = [reqs EXCEPT ![r] =
          IF read = -1 THEN [@ EXCEPT !.pc = "thrown"]
          ELSE [@ EXCEPT !.pc = "done", !.ends = @ + 1, !.body = [k |-> "raw", c |-> read]]]
    /\ UNCHANGED <<server, listening, wsServer, socketPort, instrument, excludeInstrumentation, codeCache,
                   stops, starts, instrumentCalls>>
    /\ UNCHANGED <<msgVars, sockVars>>

\* After construction: nothing is started; the options are whatever the
\* caller passed.
InitFile ==
    /\ server = FALSE
    /\ listening = FALSE
    /\ wsServer = FALSE
    /\ socketPort \in BOOLEAN
    /\ instrument \in BOOLEAN
    /\ excludeInstrumentation \in Excludes
    /\ codeCache = NullCache
    /\ stops = <<>>
    /\ starts = 0
    /\ reqs = <<>>
    /\ instrumentCalls = [path \in Paths |-> 0]

InitSock ==
    /\ sockets = <<>>
    /\ conns = <<>>

Init == InitMsg /\ InitFile /\ InitSock

NextFile ==
    \/ Lifecycle
    \/ \E method \in Methods, url \in Urls : Request(method, url)
    \/ \E r \in 1..MaxReqs, stat \in StatResults : StatDone(r, stat)
    \/ \E r \in 1..MaxReqs, read \in -1..MaxContent : ReadDone(r, read)
    \/ \E r \in 1..MaxReqs, read \in -1..MaxContent : PipeEnd(r, read)

SpecFile == Init /\ [][NextFile]_vars

\* ------------------------------------------------------------------------
\* The message path: a started proxy, its subscribers and its clients
\* ------------------------------------------------------------------------

\* ------------------------------------------------------------------------
\* The sockets of the server
\* ------------------------------------------------------------------------

\* server.on('connection'): the socket is pushed on the array.
Connection ==
    /\ listening
    /\ Len(conns) < MaxSockets
    /\ conns' = Append(conns, [gen |-> starts, st |-> "open"])
    /\ sockets' = Append(sockets, Len(conns) + 1)
    /\ UNCHANGED <<msgVars, fileVars>>

\* sockets.indexOf(socket): the first index that holds it, or 0 (for -1).
IndexOf(socks, c) ==
    IF \E i \in 1..Len(socks) : socks[i] = c
    THEN CHOOSE i \in 1..Len(socks) : socks[i] = c /\ \A j \in 1..(i - 1) : socks[j] # c
    ELSE 0

\* Mutant of Splice: splice(index) without the count of 1.
SpliceToEnd(socks, index) ==
    IF index # 0 THEN SubSeq(socks, 1, index - 1) ELSE socks

\* index !== -1 && sockets.splice(index, 1)
Splice(socks, index) ==
    IF index # 0
    THEN SubSeq(socks, 1, index - 1) \o SubSeq(socks, index + 1, Len(socks))
    ELSE socks

\* socket.on('close'): the socket is taken out of the array of its server
\* (the array of an earlier server is empty since that server's close()).
SocketClose(c) ==
    /\ c \in 1..Len(conns)
    /\ conns[c].st \in {"open", "destroyed"}
    /\ conns' = [conns EXCEPT ![c].st = "closed"]
    /\ sockets' = IF conns[c].gen = starts
                  THEN Splice(sockets, IndexOf(sockets, c)) ELSE sockets
    /\ UNCHANGED <<msgVars, fileVars>>

NextSock ==
    \/ Lifecycle
    \/ Connection
    \/ \E c \in 1..MaxSockets : SocketClose(c)

SpecSock == Init /\ [][NextSock]_vars

NextSub ==
    \/ \E s \in SessionIds, l \in Listeners : subscribe(s, l)
    \/ \E h \in 1..MaxSubs : destroy(h)

NextPost ==
    \/ NextSub
    \/ \E c \in 1..(MaxSubs * (MaxPosts * MaxBatch + MaxFrames)) : Settle(c)
    \/ \E body \in Bodies : PostEnd(body)
    \/ \E p \in 1..MaxPosts : PostRespond(p)

NextWs ==
    \/ NextSub
    \/ \E c \in 1..(MaxSubs * (MaxPosts * MaxBatch + MaxFrames)) : Settle(c)
    \/ \E data \in FrameData : WsMessage(data)
    \/ \E f \in 1..MaxFrames : WsAck(f)

\* A proxy constructed with a socketPort and started once.
InitStarted ==
    /\ InitMsg
    /\ InitSock
    /\ server = TRUE
    /\ listening = TRUE
    /\ wsServer = TRUE
    /\ socketPort = TRUE
    /\ instrument = TRUE
    /\ excludeInstrumentation = "false"
    /\ codeCache = EmptyCache
    /\ stops = <<>>
    /\ starts = 1
    /\ reqs = <<>>
    /\ instrumentCalls = [path \in Paths |-> 0]

SpecSub == InitStarted /\ [][NextSub]_vars

\* A proxy started once, with whatever instrumentation options it was
\* constructed with.
InitElig ==
    /\ InitMsg
    /\ InitSock
    /\ server = TRUE
    /\ listening = TRUE
    /\ wsServer = FALSE
    /\ socketPort = FALSE
    /\ instrument \in BOOLEAN
    /\ excludeInstrumentation \in Excludes
    /\ codeCache = EmptyCache
    /\ stops = <<>>
    /\ starts = 1
    /\ reqs = <<>>
    /\ instrumentCalls = [path \in Paths |-> 0]

\* Requests of every method for every URL, and their continuations.
NextElig ==
    \/ \E method \in Methods, url \in AllUrls : Request(method, url)
    \/ \E r \in 1..MaxReqs, stat \in StatResults : StatDone(r, stat)
    \/ \E r \in 1..MaxReqs, read \in -1..MaxContent : ReadDone(r, read)
    \/ \E r \in 1..MaxReqs, read \in -1..MaxContent : PipeEnd(r, read)

SpecElig == InitElig /\ [][NextElig]_vars

\* The bodies of the POST requests of the HTTP model: text that is not
\* JSON, and arrays of JSON-encoded events of session S1.
HttpBodies ==
    {body \in Bodies :
        /\ body.k \in {"bad", "arr"}
        /\ \A i \in 1..Len(body.items) :
              /\ body.items[i].k = "strjson"
              /\ body.items[i].ev.sessionId = "S1"
              /\ body.items[i].ev.sequence = 0}

\* The bodies of the POST requests of the batch model: arrays of
\* JSON-encoded events of session S1.
BatchBodies ==
    {body \in Bodies :
        /\ body.k = "arr"
        /\ \A i \in 1..Len(body.items) :
              /\ body.items[i].k = "strjson"
              /\ body.items[i].ev.sessionId = "S1"
              /\ body.items[i].ev.sequence <= 1
              /\ ~body.items[i].ev.wait}

\* The frames of the batch model.
BatchFrames ==
    {data \in FrameData :
        /\ data.k = "strjson"
        /\ data.ev.sequence = MaxSeq
        /\ ~data.ev.wait}

\* A POST request with a batch of events, the 'message' handlers of
\* WebSocket frames before and after it, and listeners whose promises
\* settle in between.
NextBatch ==
    \/ \E s \in SessionIds, l \in {"Lv", "Lp"} : subscribe(s, l)
    \/ \E c \in 1..(MaxSubs * (MaxPosts * MaxBatch + MaxFrames)) : Settle(c)
    \/ \E body \in BatchBodies : PostEnd(body)
    \/ \E p \in 1..MaxPosts : PostRespond(p)
    \/ \E data \in BatchFrames : WsMessage(data)

SpecBatch == InitStarted /\ [][NextBatch]_vars

\* A proxy started once, with instrumentation on or off and nothing
\* excluded.
InitHttp ==
    /\ InitMsg
    /\ InitSock
    /\ server = TRUE
    /\ listening = TRUE
    /\ wsServer = FALSE
    /\ socketPort = FALSE
    /\ instrument \in BOOLEAN
    /\ excludeInstrumentation = "false"
    /\ codeCache = EmptyCache
    /\ stops = <<>>
    /\ starts = 1
    /\ reqs = <<>>
    /\ instrumentCalls = [path \in Paths |-> 0]

\* The proxy serves file requests and POST requests side by side: every
\* continuation of either kind may run between any two others.
NextHttp ==
    \/ \E l \in Listeners : subscribe("S1", l)
    \/ \E c \in 1..(MaxSubs * MaxPosts * MaxBatch) : Settle(c)
    \/ \E body \in HttpBodies : PostEnd(body)
    \/ \E p \in 1..MaxPosts : PostRespond(p)
    \/ \E method \in Methods, url \in Urls : Request(method, url)
    \/ \E r \in 1..MaxReqs, stat \in 0..1 : StatDone(r, stat)
    \/ \E r \in 1..MaxReqs, read \in -1..1 : ReadDone(r, read)
    \/ \E r \in 1..MaxReqs, read \in -1..1 : PipeEnd(r, read)

SpecHttp == InitHttp /\ [][NextHttp]_vars

SpecPost == InitStarted /\ [][NextPost]_vars

SpecWs == InitStarted /\ [][NextWs]_vars

\* ------------------------------------------------------------------------
\* Ordering of deliveries (C1, C2)
\* ------------------------------------------------------------------------

\* The sequence numbers of the messages handled so far for a session, in
\* the order they arrived.
ArrivedFor(sessionId) ==
    LET F[i \in 0..Len(handled)] ==
            IF i = 0 THEN <<>>
            ELSE IF handled[i].msg.sessionId = sessionId
                 THEN Append(F[i - 1], handled[i].msg.sequence)
                 ELSE F[i - 1]
    IN F[Len(handled)]

\* The sequence numbers a listener was called with for a session, in the
\* order of the calls.
DeliveredTo(listener, sessionId) ==
    LET F[i \in 0..Len(calls)] ==
            IF i = 0 THEN <<>>
            ELSE IF /\ calls[i].listener = listener
                    /\ handled[calls[i].mid].msg.sessionId = sessionId
                 THEN Append(F[i - 1], handled[calls[i].mid].msg.sequence)
                 ELSE F[i - 1]
    IN F[Len(calls)]

IsPermutation(q) ==
    /\ \A i, j \in 1..Len(q) : i # j => q[i] # q[j]
    /\ \A i \in 1..Len(q) : q[i] \in 0..(Len(q) - 1)

\* (a listener subscribed twice is called twice with each event)
IsOrdered(q) == \A i, j \in 1..Len(q) : i < j => q[i] <= q[j]

\* The highest sequence number of a message handled for the session, or -1.
LastDelivered(sessionId) ==
    LET q == ArrivedFor(sessionId) IN
    IF q = <<>> THEN -1
    ELSE CHOOSE n \in 0..MaxSeq :
            /\ \E i \in 1..Len(q) : q[i] = n
            /\ \A i \in 1..Len(q) : q[i] <= n

\* C1: whatever the order in which the events 0..N-1 of a session arrive,
\* each of its listeners is called with them in the order 0, 1, ..., N-1.
C1_DeliveredInSequenceOrder ==
    \A s \in SessionIds, l \in Listeners :
        IsPermutation(ArrivedFor(s)) => IsOrdered(DeliveredTo(l, s))

\* C2: an event whose sequence number is at most the last one delivered for
\* its session is rejected: handling it calls no listener.
C2_StaleEventNotDispatched ==
    [][\A s \in SessionIds :
          (/\ Len(handled') = Len(handled) + 1
           /\ handled'[Len(handled')].msg.sessionId = s
           /\ handled'[Len(handled')].msg.sequence <= LastDelivered(s))
          => calls' = calls]_vars

\* ------------------------------------------------------------------------
\* The instrumentation cache (C3, C4)
\* ------------------------------------------------------------------------

\* Request r is an instrumented GET that was answered with content.
Served(r) == reqs[r].pc = "done" /\ reqs[r].via \in {"cache", "transform"}

\* C3 as stated: two instrumented GETs for the same file that found the
\* same mtime get the same body, and only one of them called instrument().
C3_SameMtimeOneTransform ==
    \A r1, r2 \in 1..Len(reqs) :
        (/\ r1 # r2
         /\ Served(r1) /\ Served(r2)
         /\ reqs[r1].path = reqs[r2].path
         /\ reqs[r1].mtime = reqs[r2].mtime)
        => /\ reqs[r1].body = reqs[r2].body
           /\ Cardinality({r \in {r1, r2} : reqs[r].called}) = 1

\* C3 as amended: when the callback of fs.stat of an instrumented GET runs
\* on a running server whose cache holds an entry for the path with the
\* mtime found, the request is answered 200 with the data of that entry,
\* which is the body of an earlier request that called instrument(), and
\* instrument() is not called and the cache is not written.
C3_CacheHitServesStored ==
    [][\A r \in 1..Len(reqs), mtime \in 1..MaxMtime :
          (/\ reqs[r].pc = "stat"
           /\ reqs'[r].pc # "stat"
           /\ reqs'[r].mtime = mtime
           /\ codeCache.entries[reqs[r].path].has
           /\ codeCache.entries[reqs[r].path].mtime = mtime)
          => /\ reqs'[r].pc = "done"
             /\ reqs'[r].via = "cache"
             /\ reqs'[r].heads = <<200>>
             /\ reqs'[r].ends = 1
             /\ reqs'[r].body = codeCache.entries[reqs[r].path].data
             /\ ~reqs'[r].called
             /\ instrumentCalls' = instrumentCalls
             /\ codeCache' = codeCache
             /\ \E r1 \in 1..Len(reqs) :
                   /\ r1 # r
                   /\ reqs[r1].pc = "done"
                   /\ reqs[r1].via = "transform"
                   /\ reqs[r1].path = reqs[r].path
                   /\ reqs[r1].mtime = mtime
                   /\ reqs[r1].body = reqs'[r].body]_vars

\* A second request was answered from the entry the first one stored.
C3_Witness ==
    \E r1, r2 \in 1..Len(reqs) :
        /\ reqs[r1].pc = "done" /\ reqs[r1].via = "transform"
        /\ reqs[r2].pc = "done" /\ reqs[r2].via = "cache"
        /\ reqs[r1].mtime = reqs[r2].mtime
        /\ reqs[r1].body = reqs[r2].body
        /\ instrumentCalls[reqs[r1].path] = 1

\* C4: an instrumented GET whose stat finds an mtime other than the one of
\* the cache entry is not answered from the entry (nothing is written by
\* the stat callback; the file is read); and when the read and the
\* transform succeed, instrument() has been called once more, the entry of
\* the path holds the mtime found by the stat and the new result, and the
\* response is that result.
C4_StaleEntryReplaced ==
    [][\A r \in 1..Len(reqs) :
          /\ (/\ reqs[r].pc = "stat"
              /\ reqs'[r].pc # "stat"
              /\ reqs'[r].mtime # 0
              /\ reqs'[r].old # reqs'[r].mtime)
             => /\ reqs'[r].pc = "read"
                /\ reqs'[r].heads = <<>>
                /\ reqs'[r].ends = 0
          /\ (reqs[r].pc = "read" /\ reqs'[r].pc = "done" /\ reqs'[r].via # "404")
             => /\ reqs'[r].via = "transform"
                /\ reqs'[r].heads = <<200>>
                /\ reqs'[r].body.k = "instr"
                /\ instrumentCalls'[reqs[r].path] = instrumentCalls[reqs[r].path] + 1
                /\ codeCache'.entries[reqs[r].path] =
                      [has |-> TRUE, mtime |-> reqs[r].mtime, data |-> reqs'[r].body]]_vars

\* A request found an entry with another mtime and replaced it.
C4_Witness ==
    \E r \in 1..Len(reqs) :
        /\ reqs[r].pc = "done" /\ reqs[r].via = "transform"
        /\ reqs[r].old # 0
        /\ reqs[r].old # reqs[r].mtime
        /\ codeCache.entries[reqs[r].path] =
              [has |-> TRUE, mtime |-> reqs[r].mtime, data |-> reqs[r].body]

\* ------------------------------------------------------------------------
\* Requests in flight when the server is stopped (C5)
\* ------------------------------------------------------------------------

\* C5: once stop() has been called, the callback of fs.stat or fs.readFile
\* of a request that was in flight writes nothing to its response.
C5_NothingWrittenAfterStop ==
    [][\A r \in 1..Len(reqs) :
          (reqs[r].stopped /\ reqs[r].pc \in {"stat", "read"})
          => /\ reqs'[r].heads = reqs[r].heads
             /\ reqs'[r].ends = reqs[r].ends
             /\ reqs'[r].body = reqs[r].body]_vars

\* ------------------------------------------------------------------------
\* POST requests (C6, C7)
\* ------------------------------------------------------------------------

\* JSON.parse succeeded for the body of POST request p and for each of its
\* elements.
PostParsed(p) ==
    /\ ParseBody(posts[p].body).ok
    /\ \A i \in 1..Len(posts[p].body.items) : ParseItem(posts[p].body.items[i]).ok

CallsOfPost(p) == UNION {CallsOf(mid) : mid \in MidsOfPost(p)}

\* C6 as stated: a POST is answered 500 exactly when its body did not
\* parse or a listener failed for one of its events, whatever the wait
\* policy; else 204.
C6_FailureAnswered500 ==
    \A p \in 1..Len(posts) :
        posts[p].pc = "done"
        => posts[p].status =
              IF \/ ~PostParsed(p)
                 \/ \E c \in CallsOfPost(p) : calls[c].st \in {"threw", "rejected"}
              THEN 500 ELSE 204

\* C6 as amended: a POST is answered once; with 500 when JSON.parse fails
\* for the body or one of its elements, when a listener throws while it is
\* called, or when a listener's promise rejects for an event the policy
\* waits for; else with 204, also when a listener's promise rejects for an
\* event the policy does not wait for.
C6_PostStatus ==
    \A p \in 1..Len(posts) :
        /\ posts[p].pc = "wait" => posts[p].ends = 0
        /\ posts[p].pc = "done"
           => /\ posts[p].ends = 1
              /\ posts[p].status =
                    IF \/ ~PostParsed(p)
                       \/ \E c \in CallsOfPost(p) : calls[c].st = "threw"
                       \/ \E c \in CallsOfPost(p) :
                             /\ calls[c].st = "rejected"
                             /\ handled[calls[c].mid].msg.wait
                    THEN 500 ELSE 204

\* A POST was answered 204 and 500 for the two kinds of rejection.
C6_Witness ==
    \E p \in 1..Len(posts) :
        /\ posts[p].pc = "done" /\ posts[p].status = 204
        /\ \E c \in CallsOfPost(p) :
              calls[c].st = "rejected" /\ ~handled[calls[c].mid].msg.wait

C6_Witness500 ==
    \E p \in 1..Len(posts) :
        /\ posts[p].pc = "done" /\ posts[p].status = 500
        /\ PostParsed(p)
        /\ \E c \in CallsOfPost(p) :
              calls[c].st = "rejected" /\ handled[calls[c].mid].msg.wait

\* C7: a body that is a JSON array of JSON-encoded events, or one event
\* object, is normalized to a list of events, each of them is handled, and
\* the answer is 204 when no listener fails.
C7_BothShapesAccepted ==
    \A p \in 1..Len(posts) :
        (/\ posts[p].pc = "done"
         /\ \/ posts[p].body.k = "arr"
               /\ \A i \in 1..Len(posts[p].body.items) : posts[p].body.items[i].k = "strjson"
            \/ posts[p].body.k = "single" /\ posts[p].body.items[1].k = "obj"
         /\ \A c \in CallsOfPost(p) : calls[c].st = "resolved")
        => /\ posts[p].status = 204
           /\ Cardinality(MidsOfPost(p)) = Len(posts[p].body.items)

\* ------------------------------------------------------------------------
\* Subscriptions (C8)
\* ------------------------------------------------------------------------

ListenersOf(ss, s) == ss[s].listeners

\* q2 is q1 without one of its elements equal to x.
RemovedOne(q1, q2, x) ==
    \E i \in 1..Len(q1) :
        /\ q1[i] = x
        /\ q2 = SubSeq(q1, 1, i - 1) \o SubSeq(q1, i + 1, Len(q1))

C9_EveryFrameAcknowledged ==
    \A f \in 1..Len(frames) :
        /\ frames[f].pc \in {"wait", "acked"}
        /\ Len(frames[f].acks) <= 1
        /\ frames[f].pc = "acked"
           => /\ frames[f].acks = <<frames[f].data.ev.id>>
              /\ (\E c \in CallsOf(frames[f].mid) : calls[c].st = "rejected")
                 => \E e \in 1..Len(errors) :
                       errors[e] = [frame |-> f, from |-> "handleMessage"]

\* ------------------------------------------------------------------------
\* The tracked sockets (C10)
\* ------------------------------------------------------------------------

Elements(q) == {q[i] : i \in 1..Len(q)}

\* C10: the array holds exactly the accepted connections that are neither
\* closed nor destroyed, each once; and close() of the server destroys
\* every connection of the array and leaves the array empty.
C10_SocketsTracked ==
    /\ [](/\ Elements(sockets) = {c \in 1..Len(conns) : conns[c].st = "open"}
          /\ \A i, j \in 1..Len(sockets) : i # j => sockets[i] # sockets[j])
    /\ [][(listening /\ ~listening')
          => /\ sockets' = <<>>
             /\ \A c \in Elements(sockets) : conns'[c].st = "destroyed"]_vars

\* One connection closed by itself while another stayed open, and then the
\* server was closed with that one still in the array.
C10_Witness ==
    /\ ~listening
    /\ sockets = <<>>
    /\ \E c1, c2 \in 1..Len(conns) :
          /\ c1 < c2
          /\ conns[c1].st = "closed"
          /\ conns[c2].st = "destroyed"

\* ------------------------------------------------------------------------
\* Which requests are instrumented (C11)
\* ------------------------------------------------------------------------

\* The conditions under which request r is to be instrumented.
Eligible(r) ==
    /\ reqs[r].method = "GET"
    /\ IsJsUrl(reqs[r].url)
    /\ instrument
    /\ excludeInstrumentation # "true"
    /\ ~(/\ excludeInstrumentation \in {"/^a/", "/^lib/"}
         /\ RegExpTest(excludeInstrumentation, UrlFile(reqs[r].url)))
    /\ reqs[r].url # "/__intern/a.js"

\* C11: a request calls instrument(), or is answered from the cache of
\* instrumented code, only if it is a GET for a URL of the JavaScript
\* pattern, instrument is on, excludeInstrumentation is neither true nor a
\* pattern that matches the file of the URL, and the file is not under
\* __intern/; and a GET answered 200 has an instrumented body exactly when
\* all of these hold. A request under __intern/ and a HEAD request never
\* call instrument(), and a request that is not eligible leaves the cache
\* as it is.
C11_TransformIffEligible ==
    /\ [](\A r \in 1..Len(reqs) :
            /\ reqs[r].instr <=> Eligible(r)
            /\ (reqs[r].called \/ reqs[r].pc = "read") => Eligible(r)
            /\ reqs[r].pc = "pipe" => ~Eligible(r)
            /\ (reqs[r].pc = "done" /\ reqs[r].heads = <<200>> /\ reqs[r].method = "GET")
               => ((reqs[r].via \in {"cache", "transform"} /\ reqs[r].body.k = "instr")
                   <=> Eligible(r))
            /\ reqs[r].url = "/__intern/a.js"
               => /\ ~reqs[r].called
                  /\ reqs[r].body.k # "instr"
                  /\ ~codeCache.entries[reqs[r].path].has
            /\ reqs[r].method = "HEAD"
               => /\ ~reqs[r].called
                  /\ reqs[r].body.k # "instr")
    /\ [][\A r \in 1..Len(reqs) :
            (reqs'[r] # reqs[r] /\ ~Eligible(r))
            => /\ codeCache' = codeCache
               /\ instrumentCalls' = instrumentCalls]_vars

\* With instrument on and nothing excluded, a GET for a script under
\* __intern/ was answered with the file as it is, and a GET for a script
\* under basePath with instrumented code.
C11_Witness ==
    /\ instrument
    /\ excludeInstrumentation = "false"
    /\ \E r1, r2 \in 1..Len(reqs) :
          /\ reqs[r1].method = "GET" /\ reqs[r1].url = "/__intern/a.js"
          /\ reqs[r1].pc = "done" /\ reqs[r1].heads = <<200>> /\ reqs[r1].body.k = "raw"
          /\ reqs[r2].method = "GET" /\ reqs[r2].url = "/a.js?v"
          /\ reqs[r2].pc = "done" /\ reqs[r2].via = "transform"

\* ------------------------------------------------------------------------
\* Files that cannot be served (C12) and methods that are not (C13)
\* ------------------------------------------------------------------------

\* C12: when the callback of fs.stat runs with an error while this.server
\* is set, the response is ended once, with status 404 and the fixed
\* document, whatever the error is, and the document is longer than 512
\* bytes.
C12_StatFailure404 ==
    [][\A r \in 1..Len(reqs) :
          (reqs[r].pc = "stat" /\ reqs'[r].pc # "stat" /\ server /\ reqs'[r].err # "")
          => /\ reqs'[r].pc = "done"
             /\ reqs'[r].heads = <<404>>
             /\ reqs'[r].ends = 1
             /\ reqs'[r].body = NotFoundBody
             /\ BodyLength(reqs'[r].body) > 512]_vars

\* Two requests whose stat failed for different reasons got the same 404.
C12_Witness ==
    \E r1, r2 \in 1..Len(reqs) :
        /\ reqs[r1].err = "ENOENT" /\ reqs[r2].err = "EACCES"
        /\ reqs[r1].heads = <<404>> /\ reqs[r2].heads = <<404>>
        /\ reqs[r1].body = reqs[r2].body
        /\ BodyLength(reqs[r1].body) = 585

\* C13: a request whose method is not GET, HEAD or POST is answered at
\* once with status 501 and no body; handling it changes no session, no
\* cache entry and calls neither a listener nor instrument(); and nothing
\* is written to its response afterwards.
C13_Unsupported501 ==
    /\ [][(/\ Len(reqs') = Len(reqs) + 1
           /\ reqs'[Len(reqs')].method \notin {"GET", "HEAD", "POST"})
          => /\ reqs'[Len(reqs')].pc = "done"
             /\ reqs'[Len(reqs')].heads = <<501>>
             /\ reqs'[Len(reqs')].ends = 1
             /\ reqs'[Len(reqs')].body = NoBody
             /\ sessions' = sessions
             /\ codeCache' = codeCache
             /\ instrumentCalls' = instrumentCalls
             /\ handled' = handled
             /\ calls' = calls]_vars
    /\ [](\A r \in 1..Len(reqs) :
            reqs[r].method \notin {"GET", "HEAD", "POST"}
            => /\ reqs[r].heads = <<501>>
               /\ reqs[r].ends = 1
               /\ reqs[r].body = NoBody)

\* A PUT for a script was answered 501 after a GET had put the script in
\* the cache, and the cache still holds what the GET stored.
C13_Witness ==
    \E r1, r2 \in 1..Len(reqs) :
        /\ r1 < r2
        /\ reqs[r1].pc = "done" /\ reqs[r1].via = "transform"
        /\ reqs[r2].method = "PUT" /\ reqs[r2].path = reqs[r1].path
        /\ reqs[r2].heads = <<501>>
        /\ instrumentCalls[reqs[r1].path] = 1
        /\ codeCache.entries[reqs[r1].path].data = reqs[r1].body

\* ------------------------------------------------------------------------
\* A transform that fails (C14)
\* ------------------------------------------------------------------------

\* Request r called instrument() and it threw.
TransformFailed(r) == reqs[r].pc = "thrown" /\ reqs[r].called

\* C14: no cache entry ever holds the result of a transform that threw;
\* the step in which instrument() throws calls it once, leaves the cache as
\* it is and writes nothing, and the request takes no further step; and
\* the failure is not remembered: a request whose stat finds the mtime the
\* failed request found, with the entry of the path as the failed request
\* found it, reads the file, and every read that succeeds on a running
\* server calls instrument().
C14_FailureNotCached ==
    /\ [](\A path \in Paths :
            codeCache.entries[path].has
            => /\ codeCache.entries[path].data.k = "instr"
               /\ ~InstrumentThrows(codeCache.entries[path].data.c))
    /\ [][\A r \in 1..Len(reqs) :
            /\ (reqs[r].pc = "read" /\ TransformFailed(r)')
               => /\ codeCache' = codeCache
                  /\ instrumentCalls'[reqs[r].path] = instrumentCalls[reqs[r].path] + 1
                  /\ reqs'[r].heads = <<>>
                  /\ reqs'[r].ends = 0
            /\ TransformFailed(r) => reqs'[r] = reqs[r]
            /\ (reqs[r].pc = "read" /\ reqs'[r].called)
               => instrumentCalls'[reqs[r].path] = instrumentCalls[reqs[r].path] + 1
            /\ \A r1 \in 1..Len(reqs) :
                  (/\ TransformFailed(r1)
                   /\ reqs[r].pc = "stat"
                   /\ reqs'[r].pc # "stat"
                   /\ reqs'[r].path = reqs[r1].path
                   /\ reqs'[r].mtime = reqs[r1].mtime
                   /\ codeCache.entries[reqs[r].path].mtime = reqs[r1].old)
                  => reqs'[r].pc = "read"]_vars

\* The transform failed for one request, and a later request for the same
\* path that found the same mtime called it again and was served its result.
C14_Witness ==
    \E r1, r2 \in 1..Len(reqs) :
        /\ r1 < r2
        /\ TransformFailed(r1)
        /\ reqs[r2].pc = "done" /\ reqs[r2].via = "transform"
        /\ reqs[r2].path = reqs[r1].path
        /\ reqs[r2].mtime = reqs[r1].mtime
        /\ instrumentCalls[reqs[r1].path] = 2

\* The transform failed for a request that had found an entry with another
\* mtime, and the entry is still the one it found.
C14_EntryKept ==
    \E r0, r1 \in 1..Len(reqs) :
        /\ TransformFailed(r1)
        /\ reqs[r0].pc = "done" /\ reqs[r0].via = "transform"
        /\ reqs[r1].old = reqs[r0].mtime
        /\ codeCache.entries[reqs[r1].path] =
              [has |-> TRUE, mtime |-> reqs[r0].mtime, data |-> reqs[r0].body]

\* ------------------------------------------------------------------------
\* Listeners that fail (C15), the wait policy (C16), sessions (C17)
\* ------------------------------------------------------------------------

\* The messages handled by the step.
NewMids == (Len(handled) + 1)..Len(handled')

\* The calls the step made for the mid-th message.
NewCallsOf(mid) == {c \in (Len(calls) + 1)..Len(calls') : calls'[c].mid = mid}

\* C15: when a listener fails for an event, every listener registered for
\* the session is still called for that event, and the events submitted
\* after it (the later events of the same POST body among them) are still
\* handled and dispatched to all listeners of their session.
C15_FailureDoesNotBlockOthers ==
    /\ [][\A mid \in NewMids :
            Cardinality(NewCallsOf(mid)) =
               Len(sessions'[handled'[mid].msg.sessionId].listeners)]_vars
    /\ [](\A p \in 1..Len(posts) :
            PostParsed(p) => Cardinality(MidsOfPost(p)) = Len(posts[p].body.items))

\* C16: for an event the policy waits for, the promise of _handleMessage
\* settles only when every call of a listener for the event has settled,
\* and it is rejected exactly when one of them failed; for an event the
\* policy does not wait for, _handleMessage returns a fulfilled promise
\* whatever the listeners do, so the handler of its frame is not left by
\* an exception.
C16_WaitPolicy ==
    /\ \A mid \in 1..Len(handled) :
          handled[mid].msg.wait
          => /\ HandleState(mid) # "pending"
                => \A c \in CallsOf(mid) : calls[c].st # "pending"
             /\ HandleState(mid) = "rejected"
                <=> \E c \in CallsOf(mid) : calls[c].st \in {"rejected", "threw"}
    /\ \A f \in 1..Len(frames) :
          (frames[f].mid # 0 /\ ~handled[frames[f].mid].msg.wait)
          => frames[f].pc # "thrown"

\* The listeners the calls cs hold for the mid-th message, in the order of
\* the calls.
ListenersCalled(cs, mid) ==
    LET F[i \in 0..Len(cs)] ==
            IF i = 0 THEN <<>>
            ELSE IF cs[i].mid = mid THEN Append(F[i - 1], cs[i].listener)
                 ELSE F[i - 1]
    IN F[Len(cs)]

\* C17: handling an event creates its session if need be and calls the
\* listeners subscribed to that session at that moment, each registration
\* once, and nobody else; no call is made for the event later; and an
\* event for a session without listeners is delivered with success.
C17_SessionIsolation ==
    /\ [][/\ \A mid \in NewMids :
                /\ sessions'[handled'[mid].msg.sessionId].created
                /\ ListenersCalled(calls', mid) =
                      sessions'[handled'[mid].msg.sessionId].listeners
          /\ \A mid \in 1..Len(handled) :
                ListenersCalled(calls', mid) = ListenersCalled(calls, mid)]_vars
    /\ [](\A mid \in 1..Len(handled) :
            CallsOf(mid) = {} => PublishState(mid) = "fulfilled")

\* ------------------------------------------------------------------------
\* One response per request (C18)
\* ------------------------------------------------------------------------

\* C18: the head of a response is written at most once and the response is
\* ended at most once, for file requests, requests of other methods and
\* POST requests alike, whatever the order in which the continuations of
\* fs.stat, fs.readFile, the file stream and the listeners' promises run;
\* and a response that was ended is not written again.
C18_AtMostOneResponse ==
    /\ [](/\ \A r \in 1..Len(reqs) :
               /\ Len(reqs[r].heads) <= 1
               /\ reqs[r].ends <= 1
               /\ reqs[r].ends = 1 => Len(reqs[r].heads) = 1
          /\ \A p \in 1..Len(posts) :
               /\ posts[p].ends <= 1
               /\ posts[p].ends = 1 <=> posts[p].status \in {204, 500}
               /\ posts[p].ends = 0 <=> posts[p].status = 0)
    /\ [][/\ \A r \in 1..Len(reqs) :
               reqs[r].ends = 1
               => /\ reqs'[r].heads = reqs[r].heads
                  /\ reqs'[r].ends = 1
                  /\ reqs'[r].body = reqs[r].body
          /\ \A p \in 1..Len(posts) :
               posts[p].ends = 1 => posts'[p] = posts[p]]_vars

\* A POST was answered 500 by the rejection of a listener's promise while
\* another listener's promise settled afterwards, a GET was answered from
\* the stream of the file and another request with 404.
C18_Witness ==
    /\ \E p \in 1..Len(posts) :
          /\ posts[p].status = 500
          /\ PostParsed(p)
          /\ Cardinality({c \in CallsOfPost(p) : calls[c].st = "rejected"}) = 2
    /\ \E r1, r2 \in 1..Len(reqs) :
          /\ reqs[r1].via = "pipe" /\ reqs[r1].ends = 1
          /\ reqs[r2].heads = <<404>>

\* ------------------------------------------------------------------------
\* The cache of a running server (C19)
\* ------------------------------------------------------------------------

\* C19: whenever this.server is set, this._codeCache is an object, so no
\* continuation of a file request that finds the server set reads or
\* writes a property of null.
C19_CacheWhileServerSet ==
    /\ server => ~codeCache.isNull
    /\ \A r \in 1..Len(reqs) : ~(reqs[r].pc = "thrown" /\ reqs[r].instr /\ ~reqs[r].called)

\* ------------------------------------------------------------------------
\* The order of the events of a POST body (C20)
\* ------------------------------------------------------------------------

\* C20: the events of a POST body are handled in the order of the array,
\* one after the other; the calls of the listeners for an earlier event of
\* the body all come before the calls for a later one; and no call for an
\* event of another request or frame comes between two calls made for the
\* body.
C20_BatchInOrder ==
    \A p \in 1..Len(posts) :
        PostParsed(p)
        => /\ Cardinality(MidsOfPost(p)) <= Len(posts[p].body.items)
           /\ \A mid \in MidsOfPost(p) :
                 /\ handled[mid].src = [k |-> "post", n |-> p]
                 /\ handled[mid].msg = posts[p].body.items[mid - posts[p].first + 1].ev
           /\ \A c1, c2 \in CallsOfPost(p) :
                 c1 < c2 => calls[c1].mid <= calls[c2].mid
           /\ \A c1, c2 \in CallsOfPost(p), c \in 1..Len(calls) :
                 (c1 < c /\ c < c2) => c \in CallsOfPost(p)

\* A body with the events 1 and 0 of S1, in that order, arrived between
\* two frames for S1 while S1 had two listeners: the six calls are those of
\* the first frame, of event 1, of event 0 and of the second frame.
C20_Witness ==
    /\ Len(calls) = 6
    /\ Len(handled) = 4
    /\ handled[1].src.k = "ws" /\ handled[4].src.k = "ws"
    /\ \E p \in 1..Len(posts) :
          /\ MidsOfPost(p) = {2, 3}
          /\ posts[p].body.items[1].ev.sequence = 1
          /\ posts[p].body.items[2].ev.sequence = 0
          /\ handled[2].msg.sequence = 1
          /\ handled[3].msg.sequence = 0
    /\ [c \in 1..6 |-> calls[c].mid] = <<1, 1, 2, 2, 3, 3>>

====
